---- MODULE Spec2Model ----
(***************************************************************************)
(* Model of src/sunexposure.py, the Streamlit "Vitamin D Synthesis         *)
(* Calculator".  One run of the script is one pass: the sidebar widgets    *)
(* deliver their values, the New York time is read once, the formula       *)
(* pipeline is evaluated and the results are written to the page.          *)
(* Streamlit runs the script again whenever a widget changes.              *)
(*                                                                         *)
(* Numbers.  The script computes with Python floats.  Here every float is  *)
(* an exact rational [n |-> numerator, d |-> denominator] in lowest terms, *)
(* and float('inf') is the value with d = 0.  The widget values are kept   *)
(* as integers on their input grids: uv_index in tenths, adaptation_factor *)
(* in hundredths.  f"{x:.1f}" is modelled by what it does: "inf" for the   *)
(* infinite value, and otherwise the decimal nearest to x, ties to even.   *)
(***************************************************************************)
EXTENDS Integers, Sequences, FiniteSets

VARIABLES
    uv_index,               \* st.sidebar.number_input value, in tenths
    adaptation_factor,      \* st.sidebar.slider value, in hundredths
    selected_clothing,      \* index into clothing_options (1 = first option)
    bmi,                    \* body mass index of the profile (rational)
    pc,                     \* position of the pass
    time_read,              \* outcome of datetime.now(ny_tz) in this pass
    current_hour,           \* -1 until the time has been read
    current_month,          \* -1 until the time has been read
    quality_factor,
    uv_factor,
    vitamin_d_rate,
    time_to_15000_minutes,
    burn_time_minutes,
    safety_warning_minutes,
    supplement_rec,         \* 0 while the winter branch has not assigned it
    page                    \* what has been written to the page, in order

vars == <<uv_index, adaptation_factor, selected_clothing, bmi, pc, time_read,
          current_hour, current_month, quality_factor, uv_factor,
          vitamin_d_rate, time_to_15000_minutes, burn_time_minutes,
          safety_warning_minutes, supplement_rec, page>>

(***************************************************************************)
(* Bounds of the exploration.                                              *)
(***************************************************************************)
\* The program specification explores uv_index 0.0 .. MaxUvTried/10 and the
\* widget's default; the pipeline specification explores the whole range.
MaxUvTried == 1
\* The advisor specification draws BMI 0.0 .. MaxBmiTenths/10 in steps of 0.1.
MaxBmiTenths == 400

(***************************************************************************)
(* Exact rational arithmetic standing for the float arithmetic.            *)
(***************************************************************************)
RECURSIVE GCD(_, _)
GCD(a, b) == IF b = 0 THEN a ELSE GCD(b, a % b)

Rat(num, den) ==
    IF num = 0 THEN [n |-> 0, d |-> 1]
    ELSE LET g == GCD(num, den) IN [n |-> num \div g, d |-> den \div g]

Inf == [n |-> 1, d |-> 0]                      \* float('inf')
Zero == [n |-> 0, d |-> 1]
One == [n |-> 1, d |-> 1]
\* The outcome of a division by zero (Python raises ZeroDivisionError).
ZeroDivisionError == [n |-> 0, d |-> 0]

IsInf(x) == x.d = 0 /\ x.n # 0
IsError(x) == x.d = 0 /\ x.n = 0
IsFinite(x) == x.d > 0

\* x * y, cancelling across before multiplying.
RMul(x, y) ==
    IF IsError(x) \/ IsError(y) THEN ZeroDivisionError
    ELSE IF x.n = 0 \/ y.n = 0 THEN Zero
    ELSE LET g1 == GCD(x.n, y.d)
             g2 == GCD(y.n, x.d)
         IN  [n |-> (x.n \div g1) * (y.n \div g2),
              d |-> (x.d \div g2) * (y.d \div g1)]

\* x / y as Python's float division: a zero divisor raises.
RDiv(x, y) ==
    IF IsError(x) \/ IsError(y) \/ y.n = 0 THEN ZeroDivisionError
    ELSE RMul(x, [n |-> y.d, d |-> y.n])

\* x < y and x <= y for finite x, y.
RLt(x, y) == x.n * y.d < y.n * x.d
RLe(x, y) == x.n * y.d <= y.n * x.d

RECURSIVE Pow10(_)
Pow10(k) == IF k = 0 THEN 1 ELSE 10 * Pow10(k - 1)

(***************************************************************************)
(* f"{x:.<places>f}": the text "inf" for the infinite value, otherwise x   *)
(* rounded to <places> decimals, ties to even; `scaled` is the decimal     *)
(* shown times 10^places.                                                  *)
(***************************************************************************)
Format(x, places) ==
    IF ~IsFinite(x) THEN [text |-> "inf", scaled |-> 0]
    ELSE LET whole == x.n \div x.d
             frac  == (x.n % x.d) * Pow10(places)
             low   == whole * Pow10(places) + (frac \div x.d)
             rest  == frac % x.d
             up    == \/ 2 * rest > x.d
                      \/ (2 * rest = x.d /\ low % 2 = 1)
         IN  [text |-> "number", scaled |-> IF up THEN low + 1 ELSE low]

(***************************************************************************)
(* Sidebar widgets (lines 11-23).                                          *)
(***************************************************************************)
\* number_input("UV Index", min_value=0.0, max_value=20.0, value=9.0, step=0.1)
uv_min == 0
uv_max == 200
uv_default == 90
\* slider(min_value=0.8, max_value=1.2, value=0.8, step=0.05)
adaptation_min == 80
adaptation_max == 120
adaptation_step == 5
AdaptationValues ==
    {a \in adaptation_min..adaptation_max :
        (a - adaptation_min) % adaptation_step = 0}

clothing_options ==
    << [label |-> "Nude (100%)",                  factor |-> Rat(100, 100)],
       [label |-> "Minimal/Swimwear (80%)",       factor |-> Rat(80, 100)],
       [label |-> "Light/Shorts & T-shirt (40%)", factor |-> Rat(40, 100)],
       [label |-> "Moderate/Long sleeves (15%)",  factor |-> Rat(15, 100)],
       [label |-> "Heavy/Fully covered (5%)",     factor |-> Rat(5, 100)] >>

clothing_factor(sel) == clothing_options[sel].factor

(***************************************************************************)
(* Fixed parameters (lines 26-34).                                         *)
(***************************************************************************)
base_rate == 21000
skin_type_factor == One
\* Mutant of age_factor: the age factor left out of the product.
age_factor_omitted == One
age_factor == Rat(95, 100)
height_inches == 74
weight_lbs == 180
height_m == RMul(Rat(height_inches, 1), Rat(254, 10000))
\* Mutant of weight_kg: the pounds taken for kilograms.
weight_kg_unconverted == Rat(weight_lbs, 1)
weight_kg == RMul(Rat(weight_lbs, 1), Rat(453592, 1000000))
BodyMassIndex ==
    IF height_m.n > 0 THEN RDiv(weight_kg, RMul(height_m, height_m)) ELSE Zero
med_uv1 == 425
target_dose == 15000

(***************************************************************************)
(* The formula pipeline (lines 42-69).                                     *)
(***************************************************************************)
\* Mutant of IsPeak: the window closed at 3 PM inclusive.
IsPeakInclusive(hour) == 10 <= hour /\ hour <= 15
IsPeak(hour) == 10 <= hour /\ hour < 15

QualityFactor(hour) == IF IsPeak(hour) THEN One ELSE Rat(5, 10)

QualityNote(hour) ==
    IF IsPeak(hour)
    THEN [kind |-> "quality_note", note |-> "peak", factor |-> One]
    ELSE [kind |-> "quality_note", note |-> "off-peak", factor |-> Rat(5, 10)]

\* Mutant of UvFactor: the saturating denominator lost its uv_index term.
UvFactorUnsaturated(uv) == RDiv(Rat(uv * 3, 10), Rat(40, 10))
\* uv_factor = (uv_index * 3.0) / (4.0 + uv_index), uv in tenths
UvFactor(uv) == RDiv(Rat(uv * 3, 10), Rat(40 + uv, 10))

VitaminDRate(uvf, cf, qf, af) ==
    RMul(RMul(RMul(RMul(RMul(RMul(Rat(base_rate, 1), uvf), cf),
                        skin_type_factor), age_factor), qf), Rat(af, 100))

\* Mutant of TimeTo15000Minutes: the division without its guard.
TimeTo15000Unguarded(rate) ==
    RMul(RDiv(Rat(target_dose, 1), rate), Rat(60, 1))

TimeTo15000Minutes(rate) ==
    IF IsError(rate) THEN ZeroDivisionError
    ELSE IF rate.n > 0
    THEN RMul(RDiv(Rat(target_dose, 1), rate), Rat(60, 1))
    ELSE Inf

BurnTimeMinutes(uv) ==
    IF uv > 0 THEN RDiv(Rat(med_uv1, 1), Rat(uv, 10)) ELSE Inf

SafetyWarningMinutes(uv) ==
    IF uv > 0 THEN RMul(BurnTimeMinutes(uv), Rat(8, 10)) ELSE Inf

(***************************************************************************)
(* Winter supplement notice (lines 84-99).                                 *)
(***************************************************************************)
\* Mutant of IsWinter: February left out of the winter months.
IsWinterNoFebruary(month) == month \in {11, 12, 1}
IsWinter(month) == month \in {11, 12, 1, 2}

\* Mutant of SupplementRec: the band boundaries taken strictly.
SupplementRecStrict(b) ==
    IF RLt(Rat(30, 1), b) THEN 4000
    ELSE IF RLt(Rat(25, 1), b) THEN 3000
    ELSE 2000

SupplementRec(b) ==
    IF RLe(Rat(30, 1), b) THEN 4000
    ELSE IF RLe(Rat(25, 1), b) THEN 3000
    ELSE 2000

SeasonalMessage(month, b) ==
    IF IsWinter(month)
    THEN [level |-> "warning", bmi_shown |-> Format(b, 1),
          range_label |-> "normal range", dose |-> SupplementRec(b)]
    ELSE [level |-> "info", bmi_shown |-> [text |-> "", scaled |-> 0],
          range_label |-> "", dose |-> 0]

(***************************************************************************)
(* What the pass writes to the page.                                       *)
(***************************************************************************)
\* st.title (line 7) and the sidebar are written before the time is read.
PageAtStart == << [kind |-> "title"] >>

\* The results written by lines 72-109, in the order of the st.write calls,
\* followed by the static guidance of lines 112-128.
ResultKinds ==
    << "current_time", "quality_note", "vitamin_d_rate", "time_to_target",
       "burn_time", "safety_threshold", "seasonal", "breakdown" >>

Results(hour, month, qf, uvf, rate, t15000, burn, safety, sel, af, b) ==
    << [kind |-> "current_time", hour |-> hour, month |-> month],
       QualityNote(hour),
       [kind |-> "vitamin_d_rate", shown |-> Format(rate, 2)],
       [kind |-> "time_to_target", shown |-> Format(t15000, 1)],
       [kind |-> "burn_time", shown |-> Format(burn, 1)],
       [kind |-> "safety_threshold", shown |-> Format(safety, 1)],
       [kind |-> "seasonal", message |-> SeasonalMessage(month, b)],
       [kind |-> "breakdown", base_rate |-> base_rate,
        uv_factor |-> Format(uvf, 2), clothing_factor |-> clothing_factor(sel),
        skin_type_factor |-> skin_type_factor, age_factor |-> age_factor,
        quality_factor |-> qf, adaptation_factor |-> af],
       [kind |-> "guidance"] >>

Has(kind) == \E i \in DOMAIN page : page[i].kind = kind
Entry(kind) == page[CHOOSE i \in DOMAIN page : page[i].kind = kind]
ShownResults == {i \in DOMAIN ResultKinds : Has(ResultKinds[i])}

(***************************************************************************)
(* The pass.                                                               *)
(***************************************************************************)
\* First run of the script: every widget holds its default value, nothing
\* has been read or computed, and only the title has been written.
Init ==
    /\ uv_index = uv_default
    /\ adaptation_factor = adaptation_min
    /\ selected_clothing = 1
    /\ bmi = BodyMassIndex
    /\ pc = "start"
    /\ time_read = "none"
    /\ current_hour = -1
    /\ current_month = -1
    /\ quality_factor = Zero
    /\ uv_factor = Zero
    /\ vitamin_d_rate = Zero
    /\ time_to_15000_minutes = Zero
    /\ burn_time_minutes = Zero
    /\ safety_warning_minutes = Zero
    /\ supplement_rec = 0
    /\ page = PageAtStart

\* datetime.datetime.now(ny_tz) returns (lines 37-40).
ReadTimeOk ==
    /\ pc = "start"
    /\ \E hour \in 0..23, month \in 1..12 :
          /\ current_hour' = hour
          /\ current_month' = month
    /\ time_read' = "ok"
    /\ pc' = "timed"
    /\ UNCHANGED <<uv_index, adaptation_factor, selected_clothing, bmi,
                   quality_factor, uv_factor, vitamin_d_rate,
                   time_to_15000_minutes, burn_time_minutes,
                   safety_warning_minutes, supplement_rec, page>>

\* Mutant of ReadTimeFails: the failure caught and noon in January assumed.
ReadTimeFailsDefault ==
    /\ pc = "start"
    /\ time_read' = "failed"
    /\ current_hour' = 12
    /\ current_month' = 1
    /\ pc' = "timed"
    /\ UNCHANGED <<uv_index, adaptation_factor, selected_clothing, bmi,
                   quality_factor, uv_factor, vitamin_d_rate,
                   time_to_15000_minutes, burn_time_minutes,
                   safety_warning_minutes, supplement_rec, page>>

\* pytz.timezone / datetime.now raises: nothing catches it, the script stops.
ReadTimeFails ==
    /\ pc = "start"
    /\ time_read' = "failed"
    /\ pc' = "aborted"
    /\ UNCHANGED <<uv_index, adaptation_factor, selected_clothing, bmi,
                   current_hour, current_month, quality_factor, uv_factor,
                   vitamin_d_rate, time_to_15000_minutes, burn_time_minutes,
                   safety_warning_minutes, supplement_rec, page>>

\* Lines 42-128: the pipeline, then the display.  A ZeroDivisionError in the
\* pipeline stops the script before anything of the results is written.
RunBody ==
    /\ pc = "timed"
    /\ LET qf     == QualityFactor(current_hour)
           uvf    == UvFactor(uv_index)
           rate   == VitaminDRate(uvf, clothing_factor(selected_clothing),
                                  qf, adaptation_factor)
           t15000 == TimeTo15000Minutes(rate)
           burn   == BurnTimeMinutes(uv_index)
           safety == SafetyWarningMinutes(uv_index)
           raised == \/ IsError(uvf) \/ IsError(rate) \/ IsError(t15000)
                     \/ IsError(burn) \/ IsError(safety)
       IN  /\ quality_factor' = qf
           /\ uv_factor' = uvf
           /\ vitamin_d_rate' = rate
           /\ time_to_15000_minutes' = t15000
           /\ burn_time_minutes' = burn
           /\ safety_warning_minutes' = safety
           /\ supplement_rec' =
                 IF ~raised /\ IsWinter(current_month)
                 THEN SupplementRec(bmi) ELSE 0
           /\ page' =
                 IF raised THEN page
                 ELSE page \o Results(current_hour, current_month, qf, uvf,
                                      rate, t15000, burn, safety,
                                      selected_clothing, adaptation_factor,
                                      bmi)
           /\ pc' = IF raised THEN "crashed" ELSE "done"
    /\ UNCHANGED <<uv_index, adaptation_factor, selected_clothing, bmi,
                   time_read, current_hour, current_month>>

\* The values of uv_index the program specification explores.
UvTried == {uv \in uv_min..uv_max : uv <= MaxUvTried \/ uv = uv_default}

\* Streamlit runs the script again from the top: nothing of the previous
\* pass is kept but the widgets' values.
Restart ==
    /\ pc \in {"done", "aborted", "crashed"}
    /\ pc' = "start"
    /\ time_read' = "none"
    /\ current_hour' = -1
    /\ current_month' = -1
    /\ quality_factor' = Zero
    /\ uv_factor' = Zero
    /\ vitamin_d_rate' = Zero
    /\ time_to_15000_minutes' = Zero
    /\ burn_time_minutes' = Zero
    /\ safety_warning_minutes' = Zero
    /\ supplement_rec' = 0
    /\ page' = PageAtStart
    /\ bmi' = BodyMassIndex

\* The user sets the UV index (line 11): the widget delivers a value of its
\* range and the script runs again.
ChangeUvIndex ==
    /\ Restart
    /\ uv_index' \in UvTried
    /\ UNCHANGED <<adaptation_factor, selected_clothing>>

\* The user moves the adaptation slider (line 12).
ChangeAdaptation ==
    /\ Restart
    /\ adaptation_factor' \in AdaptationValues
    /\ UNCHANGED <<uv_index, selected_clothing>>

\* The user selects a clothing option (lines 22-23).
ChangeClothing ==
    /\ Restart
    /\ selected_clothing' \in DOMAIN clothing_options
    /\ UNCHANGED <<uv_index, adaptation_factor>>

Next ==
    \/ ReadTimeOk
    \/ ReadTimeFails
    \/ RunBody
    \/ ChangeUvIndex
    \/ ChangeAdaptation
    \/ ChangeClothing

\* The program: passes of the script, one after each widget change.
Spec == Init /\ [][Next]_vars

(***************************************************************************)
(* The pipeline over its whole input range: the body of the pass applied   *)
(* to every UV index of the 0.1 grid, every clothing option and every      *)
(* slider position, at the hours around the two ends of the peak window.   *)
(***************************************************************************)
PipelineHours == {9, 10, 14, 15}

InitPipeline ==
    /\ uv_index \in uv_min..uv_max
    /\ adaptation_factor \in AdaptationValues
    /\ selected_clothing \in DOMAIN clothing_options
    /\ bmi = BodyMassIndex
    /\ pc = "timed"
    /\ time_read = "ok"
    /\ current_hour \in PipelineHours
    /\ current_month = 7
    /\ quality_factor = Zero
    /\ uv_factor = Zero
    /\ vitamin_d_rate = Zero
    /\ time_to_15000_minutes = Zero
    /\ burn_time_minutes = Zero
    /\ safety_warning_minutes = Zero
    /\ supplement_rec = 0
    /\ page = PageAtStart

SpecPipeline == InitPipeline /\ [][RunBody]_vars

(***************************************************************************)
(* The seasonal advisor over a general profile: the body of the pass       *)
(* applied to every month and to every BMI of a 0.1 grid, with the         *)
(* widgets at their defaults.                                              *)
(***************************************************************************)
BmiGrid == {Rat(k, 10) : k \in 0..MaxBmiTenths}

InitAdvisor ==
    /\ uv_index = uv_default
    /\ adaptation_factor = adaptation_min
    /\ selected_clothing = 1
    /\ bmi \in BmiGrid
    /\ pc = "timed"
    /\ time_read = "ok"
    /\ current_hour = 12
    /\ current_month \in 1..12
    /\ quality_factor = Zero
    /\ uv_factor = Zero
    /\ vitamin_d_rate = Zero
    /\ time_to_15000_minutes = Zero
    /\ burn_time_minutes = Zero
    /\ safety_warning_minutes = Zero
    /\ supplement_rec = 0
    /\ page = PageAtStart

SpecAdvisor == InitAdvisor /\ [][RunBody]_vars

(***************************************************************************)
(* Properties.                                                             *)
(***************************************************************************)
Half == [n |-> 1, d |-> 2]
PeakHours == {10, 11, 12, 13, 14}
WinterMonths == {11, 12, 1, 2}
TimeKinds == {"time_to_target", "burn_time", "safety_threshold"}
\* b >= k and b < k for a rational b and an integer k
AtLeast(b, k) == b.n >= k * b.d
Below(b, k) == b.n < k * b.d
Count(kind) == Cardinality({i \in DOMAIN page : page[i].kind = kind})

\* C1: once a pass has run, the quality factor is 1.0 exactly when the hour
\* read is one of 10..14 and 0.5 at every other hour of 0..23; it takes no
\* other value; and the note written is the peak note exactly when the
\* factor is 1.0.
C1_QualityFactorIsStepOfHour ==
    pc = "done" =>
        /\ current_hour \in 0..23
        /\ quality_factor \in {One, Half}
        /\ quality_factor = One <=> current_hour \in PeakHours
        /\ quality_factor = Half <=> current_hour \in (0..23) \ PeakHours
        /\ Entry("quality_note").note = "peak" <=> quality_factor = One
        /\ Entry("quality_note").factor = quality_factor
        /\ Entry("breakdown").quality_factor = quality_factor

\* C1 witness: a pass at 3 PM, the first hour after the window, ran with 0.5.
C1_Witness ==
    /\ pc = "done"
    /\ current_hour = 15
    /\ quality_factor = Half
    /\ Entry("quality_note").note = "off-peak"

\* C2: in a winter month the dose is 4000 when BMI >= 30, 3000 when
\* 25 <= BMI < 30 and 2000 when BMI < 25, for every BMI >= 0; exactly 25.0
\* gives 3000, exactly 30.0 gives 4000, and January with BMI 27.5 gives 3000.
C2_DoseBandsOfBmi ==
    (pc = "done" /\ current_month \in WinterMonths) =>
        /\ supplement_rec \in {2000, 3000, 4000}
        /\ supplement_rec = 4000 <=> AtLeast(bmi, 30)
        /\ supplement_rec = 3000 <=> (AtLeast(bmi, 25) /\ Below(bmi, 30))
        /\ supplement_rec = 2000 <=> Below(bmi, 25)
        /\ bmi = Rat(25, 1) => supplement_rec = 3000
        /\ bmi = Rat(30, 1) => supplement_rec = 4000
        /\ (current_month = 1 /\ bmi = Rat(275, 10)) => supplement_rec = 3000
        /\ Entry("seasonal").message.dose = supplement_rec

\* C2 witness: a winter pass with BMI exactly 25.0 recommended 3000.
C2_Witness ==
    /\ pc = "done"
    /\ current_month \in WinterMonths
    /\ bmi = Rat(25, 1)
    /\ supplement_rec = 3000

\* C3: a pass writes the warning with a dose exactly when the month read is
\* 11, 12, 1 or 2; in the months 3..10 it writes only the informational note
\* and computes no dose, whatever the BMI; and it writes exactly one of the
\* two messages.
C3_DoseOnlyInWinter ==
    pc = "done" =>
        /\ current_month \in 1..12
        /\ Count("seasonal") = 1
        /\ Entry("seasonal").message.level \in {"warning", "info"}
        /\ Entry("seasonal").message.level = "warning"
              <=> current_month \in WinterMonths
        /\ current_month \in WinterMonths =>
              /\ supplement_rec > 0
              /\ Entry("seasonal").message.dose = supplement_rec
        /\ current_month \in 3..10 =>
              /\ Entry("seasonal").message.level = "info"
              /\ Entry("seasonal").message.dose = 0
              /\ supplement_rec = 0

\* C3 witness: a pass in July with an obese BMI wrote the note and no dose.
C3_Witness ==
    /\ pc = "done"
    /\ current_month = 7
    /\ AtLeast(bmi, 30)
    /\ Entry("seasonal").message.level = "info"
    /\ supplement_rec = 0

\* C4: no pass divides by zero.  With uv_index = 0 the UV factor and the
\* rate are 0 and the three times are infinite; with uv_index > 0, for every
\* clothing option and slider position, the rate is positive and the three
\* times are finite and positive.
C4_InfiniteOnlyAtZeroUv ==
    /\ pc # "crashed"
    /\ pc = "done" =>
          /\ uv_index = 0 =>
                /\ uv_factor = Zero
                /\ vitamin_d_rate = Zero
                /\ IsInf(time_to_15000_minutes)
                /\ IsInf(burn_time_minutes)
                /\ IsInf(safety_warning_minutes)
          /\ uv_index > 0 =>
                /\ IsFinite(vitamin_d_rate) /\ vitamin_d_rate.n > 0
                /\ IsFinite(time_to_15000_minutes)
                /\ time_to_15000_minutes.n > 0
                /\ IsFinite(burn_time_minutes) /\ burn_time_minutes.n > 0
                /\ IsFinite(safety_warning_minutes)
                /\ safety_warning_minutes.n > 0

\* C4 witness: a pass with uv_index = 0 ended with an infinite time to target.
C4_Witness ==
    /\ pc = "done"
    /\ uv_index = 0
    /\ vitamin_d_rate = Zero
    /\ IsInf(time_to_15000_minutes)
    /\ IsInf(burn_time_minutes)

\* C5 (as claimed): an infinite time is never written as the text "inf".
C5_InfinityNeverShownAsInf ==
    pc = "done" =>
        \A i \in DOMAIN page :
            page[i].kind \in TimeKinds => page[i].shown.text # "inf"

\* C6 (as claimed): uv_index 9.0, nude, adaptation 0.8 at a peak hour gives a
\* rate of 33,149.2 to one decimal and shows 27.1, 47.2 and 37.8 minutes.
C6_ScenarioAsStated ==
    (/\ pc = "done" /\ uv_index = 90 /\ selected_clothing = 1
     /\ adaptation_factor = 80 /\ current_hour \in PeakHours) =>
        /\ Format(vitamin_d_rate, 1).scaled = 331492
        /\ Entry("time_to_target").shown.scaled = 271
        /\ Entry("burn_time").shown.scaled = 472
        /\ Entry("safety_threshold").shown.scaled = 378

\* C6 (amended): uv_index 9.0, nude, adaptation 0.8 at a peak hour gives the
\* rate 21000 * 27/13 * 0.95 * 0.8, shown as 33147.69, and shows 27.2, 47.2
\* and 37.8 minutes.
C6_ScenarioAsComputed ==
    (/\ pc = "done" /\ uv_index = 90 /\ selected_clothing = 1
     /\ adaptation_factor = 80 /\ current_hour \in PeakHours) =>
        /\ vitamin_d_rate = Rat(21000 * 27 * 19 * 4, 13 * 20 * 5)
        /\ Entry("vitamin_d_rate").shown = [text |-> "number", scaled |-> 3314769]
        /\ Entry("time_to_target").shown = [text |-> "number", scaled |-> 272]
        /\ Entry("burn_time").shown = [text |-> "number", scaled |-> 472]
        /\ Entry("safety_threshold").shown = [text |-> "number", scaled |-> 378]

\* C6 witness: the pass of the scenario has run, at noon.
C6_Witness ==
    /\ pc = "done" /\ uv_index = 90 /\ selected_clothing = 1
    /\ adaptation_factor = 80 /\ current_hour = 12
    /\ Entry("time_to_target").shown.scaled = 272

\* C7: on the 0.1 grid of [0, 20] the UV factor of a pass is at least 0 and
\* below 3.0, is 0 exactly at uv_index 0, and is below the UV factor of every
\* larger UV index of the grid; and the rate is never negative.
C7_UvFactorBoundedIncreasing ==
    pc = "done" =>
        /\ IsFinite(uv_factor)
        /\ uv_factor.n >= 0
        /\ Below(uv_factor, 3)
        /\ uv_factor = Zero <=> uv_index = 0
        /\ \A b \in uv_min..uv_max :
              uv_index < b => RLt(uv_factor, UvFactor(b))
        /\ IsFinite(vitamin_d_rate)
        /\ vitamin_d_rate.n >= 0

\* C7 witness: a pass at the top of the range, uv_index 20.0, has factor 2.5.
C7_Witness ==
    /\ pc = "done"
    /\ uv_index = uv_max
    /\ uv_factor = Rat(5, 2)

\* C8: when the time read fails the pass is aborted, no hour or month is
\* put in its place and none of the results is written; in every state the
\* results written are none or all of them, and are written only after a
\* time read that succeeded.
C8_TimeFailureAbortsPass ==
    /\ time_read = "failed" =>
          /\ pc = "aborted"
          /\ current_hour = -1
          /\ current_month = -1
          /\ ShownResults = {}
    /\ ShownResults = {} \/ ShownResults = DOMAIN ResultKinds
    /\ ShownResults # {} => (time_read = "ok" /\ pc = "done")
    /\ pc = "done" => ShownResults = DOMAIN ResultKinds

\* C8 witness: a pass whose time read failed stands aborted with the title
\* alone on the page.
C8_Witness ==
    /\ time_read = "failed"
    /\ pc = "aborted"
    /\ page = PageAtStart

\* C10: the profile's BMI shows as 23.1 and is below 25, so every pass of a
\* winter month recommends 2000 IU/day, 3000 and 4000 are never recommended,
\* and the "normal range" wording stands beside the dose of the normal band.
C10_ProfileDoseAlways2000 ==
    /\ Format(bmi, 1).scaled = 231
    /\ Below(bmi, 25)
    /\ supplement_rec \in {0, 2000}
    /\ (pc = "done" /\ current_month \in WinterMonths) =>
          /\ supplement_rec = 2000
          /\ Entry("seasonal").message.dose = 2000
          /\ Entry("seasonal").message.range_label = "normal range"
          /\ Entry("seasonal").message.bmi_shown.scaled = 231

\* C10 witness: a pass in December recommended 2000 IU/day.
C10_Witness ==
    /\ pc = "done"
    /\ current_month = 12
    /\ supplement_rec = 2000
    /\ Entry("seasonal").message.level = "warning"

====
